---- MODULE Spec2Model ----
(***************************************************************************)
(* The Browser Durable Object of clipster-worker (src/src/index.ts): one   *)
(* Session that owns a puppeteer browser handle, serves capture requests   *)
(* (Browser.fetch) and ages the handle out with a re-armed alarm           *)
(* (Browser.alarm).  index.ts holds two Browser classes: the first (lines  *)
(* 63-168) is modelled by Spec and TimedSpec, and line numbers refer to it *)
(* unless said otherwise; the second, the multi-viewport variant (lines    *)
(* 186-292), is modelled by the MV_ definitions and MV_Spec.               *)
(*                                                                         *)
(* Every await on puppeteer or on the bucket is a point where another      *)
(* event of the same object can be delivered, so each is a separate        *)
(* action.  The awaits on this.storage (getAlarm, setAlarm) are not:       *)
(* the object's input gate holds back every other event while a storage    *)
(* operation is in progress, so they stay inside the step that reaches     *)
(* them.                                                                   *)
(* Time is counted in seconds.                                             *)
(***************************************************************************)
EXTENDS Integers, Sequences, FiniteSets, TLC

\* ---------------------------------------------------------------- bounds
MaxCalls == 2        \* capture calls that may be in flight together
MaxLaunches == 2     \* browser handles launched in one run
TimeStep == 5        \* the clock moves by at most this many seconds a step
MaxIds == 1          \* the capture ids generateId() draws from

\* ------------------------------------------------------- program constants
KEEP_BROWSER_ALIVE_IN_SECONDS == 60
TEN_SECONDS == 10

Calls == 1..MaxCalls
Handles == 1..MaxLaunches
NoBrowser == 0       \* this.browser is null / undefined
None == -1           \* getAlarm() == null

Min(a, b) == IF a < b THEN a ELSE b

\* ------------------------------------------------------------- the inputs
\* A request header: absent (headers.get gives null) or present with a value.
NoUrlHeader == [present |-> FALSE, value |-> ""]
UrlHeader(s) == [present |-> TRUE, value |-> s]
NoUserHeader == [present |-> FALSE, value |-> <<>>]
UserHeader(bytes) == [present |-> TRUE, value |-> bytes]

\* "user_42" as its character codes
User42 == <<117, 115, 101, 114, 95, 52, 50>>

UrlHeaders == {NoUrlHeader, UrlHeader("not-a-url"), UrlHeader("https://example.com")}
UserHeaders == {NoUserHeader, UserHeader(<<>>), UserHeader(User42)}

\* what nanoid() may return: six characters of the alphabet of utils.ts
NanoIds == << "a1B2c3", "Z9y8X7", "q7W3e5", "0000aZ" >>
\* generateId(): 'O' + nanoid(), called without a suffix
GenerateId(n) == "O" \o NanoIds[n]
CaptureIds == {GenerateId(n) : n \in 1..MaxIds}

\* ------------------------------------------------------ pure functions
\* !urlHeader / !userId: null and the empty string are both falsy
FalsyUrl(h) == ~h.present \/ h.value = ""
FalsyUser(h) == ~h.present \/ h.value = <<>>

\* new URL(s) throws a TypeError unless s is an absolute URL
UrlThrows(s) == s \notin {"https://example.com"}

B64Alphabet ==
    << "A","B","C","D","E","F","G","H","I","J","K","L","M","N","O","P",
       "Q","R","S","T","U","V","W","X","Y","Z","a","b","c","d","e","f",
       "g","h","i","j","k","l","m","n","o","p","q","r","s","t","u","v",
       "w","x","y","z","0","1","2","3","4","5","6","7","8","9","+","/" >>
B64Char(n) == B64Alphabet[n + 1]

\* btoa(userId): base64 of the bytes, padded with '='
RECURSIVE Btoa(_)
Btoa(bytes) ==
    IF Len(bytes) = 0 THEN ""
    ELSE IF Len(bytes) = 1 THEN
        B64Char(bytes[1] \div 4) \o B64Char((bytes[1] % 4) * 16) \o "=="
    ELSE IF Len(bytes) = 2 THEN
        B64Char(bytes[1] \div 4)
            \o B64Char((bytes[1] % 4) * 16 + bytes[2] \div 16)
            \o B64Char((bytes[2] % 16) * 4) \o "="
    ELSE
        B64Char(bytes[1] \div 4)
            \o B64Char((bytes[1] % 4) * 16 + bytes[2] \div 16)
            \o B64Char((bytes[2] % 16) * 4 + bytes[3] \div 64)
            \o B64Char(bytes[3] % 64)
            \o Btoa(SubSeq(bytes, 4, Len(bytes)))

\* const folder = `captures/user-${btoa(userId)}`
Folder(userId) == "captures/user-" \o Btoa(userId)
\* const fileName = `${captureKey}.jpg`
FileName(captureKey) == captureKey \o ".jpg"
\* const bucketKey = `${folder}/${fileName}`
BucketKey(userId, captureKey) == Folder(userId) \o "/" \o FileName(captureKey)

\* ------------------------------------------------------------ responses
\* What a call hands back: a Response (status and JSON body) or an exception.
NoResp == [threw |-> FALSE, status |-> 0, success |-> FALSE, error |-> "", key |-> ""]
Failure(status, error) ==
    [threw |-> FALSE, status |-> status, success |-> FALSE, error |-> error, key |-> ""]
MissingUrl == Failure(400, "Invalid capture options: Missing URL")
MissingUser == Failure(400, "Invalid capture options: Missing user ID")
LaunchFailed == Failure(500, "Failed to start browser")
PageOpFailed == Failure(500, "Error during page operations")
InvalidUrlThrown ==
    [threw |-> TRUE, status |-> 0, success |-> FALSE, error |-> "TypeError: Invalid URL", key |-> ""]
\* Response.json({ success: true, key: captureKey }, { status: 200 })
Success(captureKey) ==
    [threw |-> FALSE, status |-> 200, success |-> TRUE, error |-> "", key |-> captureKey]

\* Faulty variant: the user id is not checked
Validate_UserUnchecked(url, user) ==
    IF FalsyUrl(url) THEN MissingUrl
    ELSE IF UrlThrows(url.value) THEN InvalidUrlThrown
    ELSE NoResp

\* Lines 82-90: the outcome of the header checks, NoResp when the request passes.
Validate(url, user) ==
    IF FalsyUrl(url) THEN MissingUrl
    ELSE IF UrlThrows(url.value) THEN InvalidUrlThrown
    ELSE IF FalsyUser(user) THEN MissingUser
    ELSE NoResp

\* Faulty variant: a browser is launched for every request
NeedsLaunch_Always(b, connected) == TRUE

\* if (!this.browser || !this.browser.isConnected())
NeedsLaunch(b, connected) == b = NoBrowser \/ b \notin connected

\* Faulty variant: the threshold itself still extends the life
ExtendLife_Inclusive(kept) == kept <= KEEP_BROWSER_ALIVE_IN_SECONDS

\* if (this.keptAliveInSeconds < KEEP_BROWSER_ALIVE_IN_SECONDS)
ExtendLife(kept) == kept < KEEP_BROWSER_ALIVE_IN_SECONDS

\* Faulty variant: the alarm is set without looking at the pending one
ShouldSetAlarm_Always(currentAlarm) == TRUE

\* if (currentAlarm == null)
ShouldSetAlarm(currentAlarm) == currentAlarm = None

\* ---------------------------------------------------------------- state
VARIABLES
    browser,             \* this.browser: NoBrowser or a handle
    live,                \* the handles whose connection is up (isConnected())
    launched,            \* handles launched so far; the next handle is launched + 1
    keptAliveInSeconds,  \* this.keptAliveInSeconds
    alarm,               \* the object's alarm: None, or the seconds until it is due
    closing,             \* the handle whose close() alarm() is awaiting, or NoBrowser
    calls,               \* the fetch calls: where each stands and its locals
    bucket,              \* the keys put into env.BUCKET
    ret,                 \* the call that returned in the step just taken (else IdleCall)
    alarmThrew,          \* alarm() ended with an exception in the step just taken
    alarmClobbered,      \* setAlarm() was called while an alarm was pending
    resetFrom,           \* the counter value line 112 overwrote in the step just taken
                         \* (else None)
    stopwatch            \* seconds since the last accepted capture request (capped);
                         \* it runs in TimedSpec only

vars == << browser, live, launched, keptAliveInSeconds, alarm, closing, calls, bucket,
           ret, alarmThrew, alarmClobbered, resetFrom, stopwatch >>

IdleCall ==
    [pc |-> "idle", url |-> NoUrlHeader, userId |-> NoUserHeader, captureKey |-> "",
     target |-> NoBrowser, opened |-> 0, closed |-> 0, launches |-> 0, wrote |-> {},
     resp |-> NoResp,
     keys |-> << >>]     \* the captureKey array of the multi-viewport variant

InFlight(c) == calls[c].pc # "idle"
LaunchesInFlight == Cardinality({c \in Calls : calls[c].pc = "launch"})

Init ==
    /\ browser = NoBrowser
    /\ live = {}
    /\ launched = 0
    /\ keptAliveInSeconds = 0
    /\ alarm = None
    /\ closing = NoBrowser
    /\ calls = [c \in Calls |-> IdleCall]
    /\ bucket = {}
    /\ ret = IdleCall
    /\ alarmThrew = FALSE
    /\ alarmClobbered = FALSE
    /\ resetFrom = None
    /\ stopwatch = 0

\* storage.setAlarm(Date.now() + TEN_SECONDS): the object has one alarm; setting it
\* replaces the one that was pending.
SetAlarm(pending) ==
    /\ alarm' = TEN_SECONDS
    /\ alarmClobbered' = (alarmClobbered \/ pending # None)

\* The call returns: its slot is free again and ret shows what it did.
Return(c, rec, resp) ==
    /\ ret' = [rec EXCEPT !.pc = "done", !.resp = resp]
    /\ calls' = [calls EXCEPT ![c] = IdleCall]

\* A step in which no call returns and alarm() does not end with an exception.
Quiet == ret' = IdleCall /\ alarmThrew' = FALSE

\* A step that does not run line 112.
NoReset == resetFrom' = None

\* Lines 111-120: reset the counter, draw the capture key, call newPage() on the
\* handle this.browser holds now.
BeginCapture(c, rec, b) ==
    /\ keptAliveInSeconds' = 0
    /\ resetFrom' = keptAliveInSeconds
    /\ \E id \in CaptureIds :
         calls' = [calls EXCEPT ![c] =
                      [rec EXCEPT !.pc = "newPage", !.captureKey = id, !.target = b]]

\* Lines 77-103 up to the first await: the header checks, then either launch() is
\* called or the handle at hand is used.
FetchStart(c, url, user) ==
    /\ ~InFlight(c)
    /\ LET rec == [IdleCall EXCEPT !.url = url, !.userId = user]
           v == Validate(url, user)
       IN IF v # NoResp
          THEN /\ Return(c, rec, v)
               /\ alarmThrew' = FALSE
               /\ NoReset
               /\ UNCHANGED << browser, live, launched, keptAliveInSeconds, alarm,
                               closing, bucket, alarmClobbered, stopwatch >>
          ELSE IF NeedsLaunch(browser, live)
          THEN /\ launched + LaunchesInFlight < MaxLaunches
               /\ calls' = [calls EXCEPT ![c] =
                              [rec EXCEPT !.pc = "launch", !.launches = 1]]
               /\ stopwatch' = 0
               /\ Quiet
               /\ NoReset
               /\ UNCHANGED << browser, live, launched, keptAliveInSeconds, alarm,
                               closing, bucket, alarmClobbered >>
          ELSE /\ BeginCapture(c, rec, browser)
               /\ stopwatch' = 0
               /\ Quiet
               /\ UNCHANGED << browser, live, launched, alarm, closing, bucket,
                               alarmClobbered >>

\* Line 98 resolves: this.browser = the new handle, then lines 106-120.
LaunchOk(c) ==
    /\ calls[c].pc = "launch"
    /\ launched < MaxLaunches
    /\ launched' = launched + 1
    /\ browser' = launched + 1
    /\ live' = live \cup {launched + 1}
    /\ BeginCapture(c, calls[c], launched + 1)
    /\ Quiet
    /\ UNCHANGED << alarm, closing, bucket, alarmClobbered, stopwatch >>

\* What a step of a call leaves alone when it touches nothing of the Session.
SessionUnchanged ==
    /\ NoReset
    /\ UNCHANGED << browser, live, launched, keptAliveInSeconds, alarm, closing, bucket,
                    alarmClobbered, stopwatch >>

\* Line 98 rejects: the catch of lines 99-102.
LaunchFails(c) ==
    /\ calls[c].pc = "launch"
    /\ Return(c, calls[c], LaunchFailed)
    /\ alarmThrew' = FALSE
    /\ SessionUnchanged

\* An awaited page operation resolves and the next one is called.
PageOpOk(c, from, to) ==
    /\ calls[c].pc = from
    /\ calls[c].target \in live
    /\ calls' = [calls EXCEPT ![c].pc = to,
                              ![c].opened = IF from = "newPage" THEN 1 ELSE @]
    /\ Quiet
    /\ SessionUnchanged

\* Lines 120, 122, 123, 126 resolve.
NewPageOk(c) == PageOpOk(c, "newPage", "setViewport")
SetViewportOk(c) == PageOpOk(c, "setViewport", "goto")
GotoOk(c) == PageOpOk(c, "goto", "screenshot")
ScreenshotOk(c) == PageOpOk(c, "screenshot", "put")

\* Line 129 resolves: the object is in the bucket; page.close() is called.
PutOk(c) ==
    /\ calls[c].pc = "put"
    /\ LET k == BucketKey(calls[c].userId.value, calls[c].captureKey)
       IN /\ bucket' = bucket \cup {k}
          /\ calls' = [calls EXCEPT ![c].pc = "close", ![c].wrote = @ \cup {k}]
    /\ Quiet
    /\ NoReset
    /\ UNCHANGED << browser, live, launched, keptAliveInSeconds, alarm, closing,
                    alarmClobbered, stopwatch >>

\* An awaited operation of the try block rejects: the catch of lines 132-134
\* returns; nothing else is done.
PageOpFails(c) ==
    /\ calls[c].pc \in {"newPage", "setViewport", "goto", "screenshot", "put", "close"}
    /\ Return(c, calls[c], PageOpFailed)
    /\ alarmThrew' = FALSE
    /\ SessionUnchanged

\* Line 131 resolves, then lines 136-147: reset, getAlarm, setAlarm if none, return.
CloseOk(c) ==
    /\ calls[c].pc = "close"
    /\ calls[c].target \in live
    /\ keptAliveInSeconds' = 0
    /\ IF ShouldSetAlarm(alarm) THEN SetAlarm(alarm) ELSE UNCHANGED << alarm, alarmClobbered >>
    /\ Return(c, [calls[c] EXCEPT !.closed = @ + 1], Success(calls[c].captureKey))
    /\ alarmThrew' = FALSE
    /\ NoReset
    /\ UNCHANGED << browser, live, launched, closing, bucket, stopwatch >>

\* alarm(), lines 150-165 up to the await of browser.close(): the due alarm is
\* consumed as the handler starts, the counter grows, and either the next alarm is
\* set or close() is called.
AlarmFires ==
    /\ alarm = 0
    /\ closing = NoBrowser
    /\ keptAliveInSeconds' = keptAliveInSeconds + 10
    /\ IF ExtendLife(keptAliveInSeconds + 10)
       THEN /\ SetAlarm(None)
            /\ UNCHANGED closing
       ELSE /\ alarm' = None
            /\ closing' = browser
            /\ UNCHANGED alarmClobbered
    /\ Quiet
    /\ NoReset
    /\ UNCHANGED << browser, live, launched, calls, bucket, stopwatch >>

\* Line 164 resolves: the handle's connection is gone.
AlarmCloseOk ==
    /\ closing # NoBrowser
    /\ live' = live \ {closing}
    /\ closing' = NoBrowser
    /\ Quiet
    /\ NoReset
    /\ UNCHANGED << browser, launched, keptAliveInSeconds, alarm, calls, bucket,
                    alarmClobbered, stopwatch >>

\* Line 164 rejects: nothing catches it, alarm() ends with the exception.
AlarmCloseFails ==
    /\ closing # NoBrowser
    /\ \E gone \in BOOLEAN : live' = IF gone THEN live \ {closing} ELSE live
    /\ closing' = NoBrowser
    /\ alarmThrew' = TRUE
    /\ ret' = IdleCall
    /\ NoReset
    /\ UNCHANGED << browser, launched, keptAliveInSeconds, alarm, calls, bucket,
                    alarmClobbered, stopwatch >>

\* The connection of a handle drops (the browser session ends on its own).
Disconnect(h) ==
    /\ h \in live
    /\ live' = live \ {h}
    /\ Quiet
    /\ NoReset
    /\ UNCHANGED << browser, launched, keptAliveInSeconds, alarm, closing, calls, bucket,
                    alarmClobbered, stopwatch >>

\* The seconds that pass in one step of the clock: never past the alarm's due time.
Elapse == IF alarm > 0 THEN Min(TimeStep, alarm) ELSE TimeStep

\* Time passes, up to the moment the alarm is due; a due alarm runs before more
\* time passes unless alarm() is still running.
Tick ==
    /\ alarm > 0
    /\ alarm' = alarm - Elapse
    /\ Quiet
    /\ NoReset
    /\ UNCHANGED << browser, live, launched, keptAliveInSeconds, closing, calls, bucket,
                    alarmClobbered, stopwatch >>

\* The same with the stopwatch running.
TimedTick ==
    /\ alarm # 0 \/ closing # NoBrowser
    /\ alarm' = IF alarm > 0 THEN alarm - Elapse ELSE alarm
    /\ stopwatch' = Min(stopwatch + Elapse, KEEP_BROWSER_ALIVE_IN_SECONDS)
    /\ alarm' # alarm \/ stopwatch' # stopwatch
    /\ Quiet
    /\ NoReset
    /\ UNCHANGED << browser, live, launched, keptAliveInSeconds, closing, calls, bucket,
                    alarmClobbered >>

\* The steps of the calls in cs, of alarm() and of the browser connections.
Step(cs) ==
    \/ \E c \in cs, url \in UrlHeaders, user \in UserHeaders : FetchStart(c, url, user)
    \/ \E c \in cs : LaunchOk(c)
    \/ \E c \in cs : LaunchFails(c)
    \/ \E c \in cs : NewPageOk(c)
    \/ \E c \in cs : SetViewportOk(c)
    \/ \E c \in cs : GotoOk(c)
    \/ \E c \in cs : ScreenshotOk(c)
    \/ \E c \in cs : PutOk(c)
    \/ \E c \in cs : PageOpFails(c)
    \/ \E c \in cs : CloseOk(c)
    \/ AlarmFires
    \/ AlarmCloseOk
    \/ AlarmCloseFails
    \/ \E h \in Handles : Disconnect(h)

Next == Step(Calls) \/ Tick

Spec == Init /\ [][Next]_vars

\* One call at a time, with the stopwatch running.
TimedNext == Step({1}) \/ TimedTick

TimedSpec == Init /\ [][TimedNext]_vars

\* ============================================ the multi-viewport variant
\* The second Browser class of index.ts (lines 186-292).  Its constructor and its
\* alarm() are those of the first class; its fetch differs in the header checks, in
\* the naming of the stored object (URL and dimensions, no generateId) and in its
\* responses (plain text bodies).

\* const width = [1920]; const height = [1080]
MV_Width == << 1920 >>
MV_Height == << 1080 >>

\* urlHeader ?? 'https://example.com': only a missing header takes the default
MV_UrlOf(h) == IF h.present THEN h.value ELSE "https://example.com"
\* url.href: the URL parser gives a URL without a path the path "/"
MV_Href(s) == IF s \in {"https://example.com"} THEN s \o "/" ELSE s

\* const fileName = `${url.href}_${width[i]}x${height[i]}`
MV_FileName(href, i) == href \o "_" \o ToString(MV_Width[i]) \o "x" \o ToString(MV_Height[i])
\* const key = `${folder}/${fileName}.jpg`, folder = `captures/user-${btoa(userId)}`
MV_Key(userId, href, i) == Folder(userId) \o "/" \o MV_FileName(href, i) \o ".jpg"

\* new Response(text, { status })
MV_Text(status, text) == [threw |-> FALSE, status |-> status, text |-> text]
MV_UserNotFound == MV_Text(400, "User ID not found")
MV_LaunchFailed == MV_Text(500, "Failed to start browser")
MV_PageOpFailed == MV_Text(500, "Error during page operations")
\* new Response(JSON.stringify({ sucess: true, captureKey }), { status: 200 })
MV_Success(captureKey) ==
    [threw |-> FALSE, status |-> 200, sucess |-> TRUE, captureKey |-> captureKey]

\* Lines 201-208: new URL() comes first and throws on a malformed header; a missing
\* header is replaced by the default; then the user id is checked.
MV_Validate(url, user) ==
    IF UrlThrows(MV_UrlOf(url)) THEN InvalidUrlThrown
    ELSE IF FalsyUser(user) THEN MV_UserNotFound
    ELSE NoResp

MV_Init == Init

\* Lines 233-239: reset the counter, captureKey = [], call newPage().
MV_BeginCapture(c, rec, b) ==
    /\ keptAliveInSeconds' = 0
    /\ resetFrom' = keptAliveInSeconds
    /\ calls' = [calls EXCEPT ![c] =
                    [rec EXCEPT !.pc = "newPage", !.keys = << >>, !.target = b]]

\* Lines 200-225 up to the first await.
MV_FetchStart(c, url, user) ==
    /\ ~InFlight(c)
    /\ LET rec == [IdleCall EXCEPT !.url = url, !.userId = user]
           v == MV_Validate(url, user)
       IN IF v # NoResp
          THEN /\ Return(c, rec, v)
               /\ alarmThrew' = FALSE
               /\ NoReset
               /\ UNCHANGED << browser, live, launched, keptAliveInSeconds, alarm,
                               closing, bucket, alarmClobbered, stopwatch >>
          ELSE IF NeedsLaunch(browser, live)
          THEN /\ launched + LaunchesInFlight < MaxLaunches
               /\ calls' = [calls EXCEPT ![c] =
                              [rec EXCEPT !.pc = "launch", !.launches = 1]]
               /\ stopwatch' = 0
               /\ Quiet
               /\ NoReset
               /\ UNCHANGED << browser, live, launched, keptAliveInSeconds, alarm,
                               closing, bucket, alarmClobbered >>
          ELSE /\ MV_BeginCapture(c, rec, browser)
               /\ stopwatch' = 0
               /\ Quiet
               /\ UNCHANGED << browser, live, launched, alarm, closing, bucket,
                               alarmClobbered >>

\* Line 220 resolves: this.browser = the new handle, then lines 228-239.
MV_LaunchOk(c) ==
    /\ calls[c].pc = "launch"
    /\ launched < MaxLaunches
    /\ launched' = launched + 1
    /\ browser' = launched + 1
    /\ live' = live \cup {launched + 1}
    /\ MV_BeginCapture(c, calls[c], launched + 1)
    /\ Quiet
    /\ UNCHANGED << alarm, closing, bucket, alarmClobbered, stopwatch >>

\* Line 220 rejects: the catch of lines 221-224.
MV_LaunchFails(c) ==
    /\ calls[c].pc = "launch"
    /\ Return(c, calls[c], MV_LaunchFailed)
    /\ alarmThrew' = FALSE
    /\ SessionUnchanged

\* Lines 239, 243, 244, 247 resolve (one round of the loop per viewport).
MV_NewPageOk(c) == PageOpOk(c, "newPage", "setViewport")
MV_SetViewportOk(c) == PageOpOk(c, "setViewport", "goto")
MV_GotoOk(c) == PageOpOk(c, "goto", "screenshot")
MV_ScreenshotOk(c) == PageOpOk(c, "screenshot", "put")

\* Line 248 resolves: the object is in the bucket and its key is pushed; the loop
\* goes on with the next viewport or, after the last, page.close() is called.
MV_PutOk(c) ==
    /\ calls[c].pc = "put"
    /\ LET i == Len(calls[c].keys) + 1
           k == MV_Key(calls[c].userId.value, MV_Href(MV_UrlOf(calls[c].url)), i)
       IN /\ bucket' = bucket \cup {k}
          /\ calls' = [calls EXCEPT ![c].pc = IF i < Len(MV_Width) THEN "setViewport"
                                              ELSE "close",
                                    ![c].wrote = @ \cup {k},
                                    ![c].keys = Append(@, k)]
    /\ Quiet
    /\ NoReset
    /\ UNCHANGED << browser, live, launched, keptAliveInSeconds, alarm, closing,
                    alarmClobbered, stopwatch >>

\* An awaited operation of the try block rejects: the catch of lines 254-257
\* returns; nothing else is done.
MV_PageOpFails(c) ==
    /\ calls[c].pc \in {"newPage", "setViewport", "goto", "screenshot", "put", "close"}
    /\ Return(c, calls[c], MV_PageOpFailed)
    /\ alarmThrew' = FALSE
    /\ SessionUnchanged

\* Line 253 resolves, then lines 259-270: reset, getAlarm, setAlarm if none, return.
MV_CloseOk(c) ==
    /\ calls[c].pc = "close"
    /\ calls[c].target \in live
    /\ keptAliveInSeconds' = 0
    /\ IF ShouldSetAlarm(alarm) THEN SetAlarm(alarm)
       ELSE UNCHANGED << alarm, alarmClobbered >>
    /\ Return(c, [calls[c] EXCEPT !.closed = @ + 1], MV_Success(calls[c].keys))
    /\ alarmThrew' = FALSE
    /\ NoReset
    /\ UNCHANGED << browser, live, launched, closing, bucket, stopwatch >>

\* Lines 273-290: alarm() of the second class is the alarm() of the first.
MV_AlarmFires == AlarmFires
MV_AlarmCloseOk == AlarmCloseOk
MV_AlarmCloseFails == AlarmCloseFails

MV_Next ==
    \/ \E c \in Calls :
         \/ \E url \in UrlHeaders, user \in UserHeaders : MV_FetchStart(c, url, user)
         \/ MV_LaunchOk(c)
         \/ MV_LaunchFails(c)
         \/ MV_NewPageOk(c)
         \/ MV_SetViewportOk(c)
         \/ MV_GotoOk(c)
         \/ MV_ScreenshotOk(c)
         \/ MV_PutOk(c)
         \/ MV_PageOpFails(c)
         \/ MV_CloseOk(c)
    \/ MV_AlarmFires
    \/ MV_AlarmCloseOk
    \/ MV_AlarmCloseFails
    \/ \E h \in Handles : Disconnect(h)
    \/ Tick

MV_Spec == MV_Init /\ [][MV_Next]_vars

\* ================================================================ claims
InFlightCalls == {c \in Calls : InFlight(c)}
Returned == ret.pc = "done"
\* the request of a returned call is one the header checks refuse
Refused(r) == FalsyUrl(r.url) \/ UrlThrows(r.url.value) \/ FalsyUser(r.userId)
\* the step runs alarm(): the due alarm is consumed
AlarmRuns == alarm = 0 /\ alarm' # 0

\* C1: at most one idle-check alarm is pending at every instant: no setAlarm() is
\* ever issued while an alarm is pending (fetch sets one only when getAlarm() gave
\* null, alarm() sets at most one after its own was consumed), and the pending alarm
\* is a single due time at most ten seconds ahead.
C1_AtMostOneAlarm ==
    /\ ~alarmClobbered
    /\ alarm \in {None} \cup (0..TEN_SECONDS)

\* C1 witness: a capture returned success while another call was in flight and the
\* alarm armed earlier was still counting down, so it set none.
C1_Witness ==
    /\ Returned /\ ret.resp.success
    /\ alarm \in 0..(TEN_SECONDS - 1)
    /\ InFlightCalls # {}

\* C2 (as claimed): a call that opened a page has closed it once when it returns.
C2_PageClosedOnReturn == (Returned /\ ret.opened = 1) => ret.closed = 1

\* C3: a run of alarm() adds exactly 10 to the counter; below 60 it sets exactly
\* the next alarm and tears nothing down; at 60 it calls close() on the handle and
\* sets no alarm.  Between runs only the reset of a capture changes the counter, and
\* once no alarm is pending only a capture that returns success arms one again.
C3_IdleTicks ==
    /\ [][AlarmRuns =>
            /\ keptAliveInSeconds' = keptAliveInSeconds + 10
            /\ keptAliveInSeconds' < 60 =>
                  (alarm' = TEN_SECONDS /\ closing' = NoBrowser /\ live' = live)
            /\ keptAliveInSeconds' >= 60 => (alarm' = None /\ closing' = browser)]_vars
    /\ [][(keptAliveInSeconds' # keptAliveInSeconds /\ ~AlarmRuns) =>
            (keptAliveInSeconds' = 0 /\ (resetFrom' # None \/ ret'.resp.success))]_vars
    /\ [][(alarm = None /\ alarm' # None) => ret'.resp.success]_vars

\* C3 witness: the sixth tick in a row has run: the counter is 60, close() is being
\* awaited on the live handle and no alarm is pending.
C3_Witness ==
    /\ keptAliveInSeconds = 60
    /\ closing # NoBrowser /\ closing = browser /\ closing \in live
    /\ alarm = None
    /\ InFlightCalls = {}

\* C4: a capture request that passes the header checks while a connected handle is
\* held and the counter stands at 10*N, N in 0..5, sets the counter to 0 and calls
\* newPage() on that handle in the same step: no launch, the handle untouched, and
\* no teardown begun.
C4_RequestResetsIdle ==
    [][\A c \in Calls :
         (/\ calls[c].pc = "idle" /\ calls'[c].pc # "idle"
          /\ browser \in live
          /\ keptAliveInSeconds < KEEP_BROWSER_ALIVE_IN_SECONDS)
         => /\ keptAliveInSeconds' = 0
            /\ calls'[c].pc = "newPage"
            /\ calls'[c].target = browser
            /\ calls'[c].launches = 0
            /\ UNCHANGED << browser, live, launched, closing, alarm >>]_vars

\* C4 witness: a request has just erased 50 idle seconds and is using the handle it
\* found, without a launch.
C4_Witness ==
    /\ resetFrom = 50
    /\ keptAliveInSeconds = 0
    /\ \E c \in Calls :
         /\ calls[c].pc = "newPage" /\ calls[c].launches = 0
         /\ calls[c].target = browser /\ browser \in live

\* C5 (as claimed): a call whose URL is missing or malformed, or whose user id is
\* missing or empty, returns a Response with status 400.
C5_RefusedWith400 ==
    (Returned /\ Refused(ret)) => (~ret.resp.threw /\ ret.resp.status = 400)

\* C6: the step in which a refused request returns changes nothing of the Session:
\* handle, connections, counter, alarm, bucket and the other calls stay as they
\* were, and the call launched nothing, opened no page and wrote nothing.
C6_RefusalChangesNothing ==
    [][(ret'.pc = "done" /\ Refused(ret')) =>
         /\ UNCHANGED << browser, live, launched, keptAliveInSeconds, alarm, closing,
                         bucket, calls, alarmClobbered >>
         /\ ret'.launches = 0 /\ ret'.opened = 0 /\ ret'.wrote = {}]_vars

\* C6 witness: a request was refused while a live handle was held, the counter
\* stood above 0 and an alarm was pending.
C6_Witness ==
    /\ Returned /\ Refused(ret)
    /\ browser \in live /\ keptAliveInSeconds > 0 /\ alarm # None

\* C7 (as claimed): a successful capture wrote one artifact and the key it returns
\* is the storage key of that artifact.
C7_ReturnedKeyIsStorageKey ==
    (Returned /\ ret.resp.success) =>
        (Cardinality(ret.wrote) = 1 /\ ret.resp.key \in ret.wrote)

\* C8 (as claimed): a call whose launch threw made one launch attempt, opened no
\* page, and leaves the Session without a usable handle.
C8_LaunchFailureLeavesCold ==
    (Returned /\ ret.resp = LaunchFailed) =>
        /\ ret.launches = 1 /\ ret.opened = 0
        /\ ret.resp.status = 500 /\ ret.resp # PageOpFailed
        /\ NeedsLaunch(browser, live)

\* C9 (as claimed): alarm() tears the live handle down only when 60 seconds have
\* passed since the last capture request (taken at the teardowns that find no
\* capture in flight).
C9_KeptAliveSixtySeconds ==
    (closing # NoBrowser /\ closing \in live /\ InFlightCalls = {}) =>
        stopwatch >= KEEP_BROWSER_ALIVE_IN_SECONDS

\* C10 (as claimed): at most one capture call is between its start and its return.
C10_OneCaptureAtATime == Cardinality(InFlightCalls) <= 1

\* a capture is past its counter reset and has not returned
Capturing(c) == calls[c].pc \in {"newPage", "setViewport", "goto", "screenshot", "put", "close"}
\* the step is the alarm tick that decides for teardown and calls close()
TeardownBegins == closing = NoBrowser /\ closing' # NoBrowser

\* C11 (as claimed): an alarm tick never tears the handle down while a capture is in
\* flight: whenever a tick starts closing a handle, no call that has reset the counter
\* and not yet returned is working on that handle, however many ticks fired meanwhile.
C11_NoTeardownDuringCapture ==
    [][TeardownBegins => \A c \in Calls : ~(Capturing(c) /\ calls[c].target = closing')]_vars

\* the returned call ended in the catch of the page operations
ReturnedPageOpFailure == Returned /\ ret.resp.error = "Error during page operations"

\* C12 (as claimed): a failed page operation returns one failure with status 500 and
\* no key, and leaves the Session with the idle counter at 0 and the handle retained.
C12_PageOpFailureResets ==
    ReturnedPageOpFailure =>
        /\ ret.resp = PageOpFailed
        /\ ret.resp.key = ""
        /\ keptAliveInSeconds = 0
        /\ browser # NoBrowser

\* the step is the one in which the close() awaited by alarm() resolves
TeardownCompletes == closing # NoBrowser /\ closing' = NoBrowser /\ ~alarmThrew'

\* C13 (as claimed): the browser field is non-null only after a launch succeeded, and
\* it is null once the alarm has torn the handle down: when the teardown's close()
\* resolves the field no longer holds the closed handle.
C13_FieldNullAfterTeardown ==
    [][ /\ (browser' # NoBrowser => launched' > 0)
        /\ (TeardownCompletes => browser' = NoBrowser) ]_vars

\* C14 (as claimed): a close() that throws at the threshold is swallowed: the alarm
\* handler never ends by raising.
C14_CloseFailureSwallowed == ~alarmThrew

\* the step accepts a capture request of call c (its headers passed the checks)
Accepted(c) == ~InFlight(c) /\ calls'[c].pc # "idle"

\* C15 (as claimed): once the alarm has decided for teardown, no alarm is pending when
\* the teardown completes, and a capture request accepted from then on launches a new
\* handle instead of opening a page on the handle being torn down.
C15_ColdAfterTeardown ==
    [][ /\ (TeardownCompletes => alarm' = None)
        /\ \A c \in Calls : (Accepted(c) /\ closing # NoBrowser) => calls'[c].pc = "launch" ]_vars

\* the returned call ended with Response.json({ success: true, key })
ReturnedSuccess == Returned /\ ret.resp.success

\* C16 (as claimed): when a capture returns success the Session holds a live handle,
\* the idle counter is 0 and an idle-check alarm is pending, at most ten seconds ahead.
C16_ReadyAfterSuccess ==
    ReturnedSuccess =>
        /\ browser \in live
        /\ keptAliveInSeconds = 0
        /\ alarm \in 0..TEN_SECONDS

\* C17 (as claimed): capture calls run first in, first out: a request is taken up only
\* when every request that arrived before it has produced its result, so at the step
\* that accepts a call no other call is between its start and its return.
C17_FirstInFirstOut ==
    [][\A c \in Calls : Accepted(c) => \A d \in Calls \ {c} : ~InFlight(d)]_vars

\* C18 (as claimed): the Session terminates its browser by itself: whenever it holds a
\* live handle, no capture is in flight and no teardown is under way, an idle-check
\* alarm is pending, whether the last capture succeeded or failed.
C18_LiveHandleHasAlarm ==
    (browser \in live /\ InFlightCalls = {} /\ closing = NoBrowser) => alarm # None

\* C19: in every reachable state the idle counter is a multiple of 10 in 0..60, and
\* while an alarm is pending it is below the threshold, so the tick that alarm brings
\* cannot carry it past 60.
C19_CounterInRange ==
    /\ keptAliveInSeconds \in {10 * k : k \in 0..(KEEP_BROWSER_ALIVE_IN_SECONDS \div 10)}
    /\ alarm # None => keptAliveInSeconds < KEEP_BROWSER_ALIVE_IN_SECONDS
\* the counter has reached the threshold by ticks that fired during a capture call
C19_Witness == keptAliveInSeconds = KEEP_BROWSER_ALIVE_IN_SECONDS /\ InFlightCalls # {}
====
